---- MODULE Spec2Model ----
(***************************************************************************)
(* YAR - Yet Another Raider (src/src/yar/main.c): the frame loop of main   *)
(* over one GameState, with the five update functions it calls.            *)
(*                                                                         *)
(* Numbers.  The C code works on floats.  Here a position is an integer    *)
(* count of 1/Scale field units, a direction component an integer count of *)
(* 1/Frac, a velocity is in position steps per second and a frame time in  *)
(* milliseconds.  Divisions truncate toward zero.                          *)
(***************************************************************************)
EXTENDS Integers, Sequences, FiniteSets

SCREEN_WIDTH == 800
SCREEN_HEIGHT == 600
PLAYER_SPEED == 200
BULLET_SPEED == 400
ENEMY_SPEED == 100
MAX_BULLETS == 20
MAX_ENEMIES == 10
PLAYER_RADIUS == 20
BULLET_RADIUS == 5
ENEMY_RADIUS == 15
KILL_SCORE == 10
RESPAWN_MARGIN == 50
\* 0.707f, in thousandths
DIAG_MILLI == 707

\* fixed-point resolutions of the float model
Scale == 100
Frac == 10000
MsPerSec == 1000

Bullets == 0..(MAX_BULLETS - 1)
Enemies == 0..(MAX_ENEMIES - 1)

Vec(x, y) == [x |-> x, y |-> y]
\* a point given in whole field units
Pt(x, y) == Vec(x * Scale, y * Scale)

Abs(a) == IF a < 0 THEN -a ELSE a
Max(a, b) == IF a < b THEN b ELSE a

\* The array f.  TLC evaluates [i \in S |-> e] element by element at every
\* use; comparing it makes TLC compute it once and keep the result.
Array(f) == IF f = f THEN f ELSE f

\* float division and multiplication by a ratio, rounded toward zero
TDiv(a, b) == IF a < 0 THEN -((-a) \div b) ELSE a \div b

\* integer square root by Newton's iteration from an upper estimate
RECURSIVE NewtonSqrt(_, _)
NewtonSqrt(n, x) ==
    LET y == (x + n \div x) \div 2
    IN  IF y >= x THEN x ELSE NewtonSqrt(n, y)

\* sqrtf(dx*dx + dy*dy).  Components beyond CoarseFrom are squared at a
\* quarter of the resolution, which keeps the sum within 32 bits.
CoarseFrom == 30000
CoarseStep == 4
Length(dx, dy) ==
    LET k == IF Max(Abs(dx), Abs(dy)) > CoarseFrom THEN CoarseStep ELSE 1
        a == Abs(dx) \div k
        b == Abs(dy) \div k
        n == a * a + b * b
    IN  IF n = 0 THEN 0 ELSE k * NewtonSqrt(n, a + b)

\* Normalize that aims right when the length is 0
NormalizeDefaultRight(dx, dy) ==
    LET len == Length(dx, dy)
    IN  IF len > 0 THEN Vec(TDiv(dx * Frac, len), TDiv(dy * Frac, len))
        ELSE Vec(Frac, 0)

\* direction / length when length > 0, else the direction unchanged (0,0);
\* the result is in 1/Frac
Normalize(dx, dy) ==
    LET len == Length(dx, dy)
    IN  IF len > 0 THEN Vec(TDiv(dx * Frac, len), TDiv(dy * Frac, len))
        ELSE Vec(0, 0)

\* direction (1/Frac) times speed (units per second), as position steps per second
Velocity(d, speed) == Vec(TDiv(d.x * speed * Scale, Frac), TDiv(d.y * speed * Scale, Frac))

\* velocity times deltaTime, in position steps
Step(v, dt) == TDiv(v * dt, MsPerSec)

\* Closer with "distance <= r"
CloserOrTouching(a, b, r) ==
    LET dx == Abs(a.x - b.x)
        dy == Abs(a.y - b.y)
    IN  dx <= r /\ dy <= r /\ dx * dx + dy * dy <= r * r

\* sqrtf((a.x-b.x)^2 + (a.y-b.y)^2) < r, r in position steps
Closer(a, b, r) ==
    LET dx == Abs(a.x - b.x)
        dy == Abs(a.y - b.y)
    IN  dx < r /\ dy < r /\ dx * dx + dy * dy < r * r


(***************************************************************************)
(* The GameState and the functions that update it.  A game g is a record   *)
(* [player, bullets, enemies, score, gameOver]; every GameObject is a      *)
(* record [position, velocity, radius, active].  The color field is never  *)
(* read by the update functions and is left out.                           *)
(***************************************************************************)

\* InitGame with SCREEN_WIDTH/2 for both coordinates of the player
InitGameSquare(g, draws) ==
    [player   |-> [position |-> Pt(SCREEN_WIDTH \div 2, SCREEN_WIDTH \div 2),
                   velocity |-> Vec(0, 0),
                   radius   |-> PLAYER_RADIUS * Scale,
                   active   |-> TRUE],
     bullets  |-> Array([i \in Bullets |->
                     [g.bullets[i] EXCEPT !.active = FALSE,
                                          !.radius = BULLET_RADIUS * Scale]]),
     enemies  |-> Array([i \in Enemies |->
                     [position |-> Pt(draws[i][1], draws[i][2]),
                      velocity |-> Vec(0, 0),
                      radius   |-> ENEMY_RADIUS * Scale,
                      active   |-> TRUE]]),
     score    |-> 0,
     gameOver |-> FALSE]

\* InitGame with the enemy positions draws[i] = <<x, y>> it drew; the
\* position and velocity of the bullet slots are not assigned
InitGame(g, draws) ==
    [player   |-> [position |-> Pt(SCREEN_WIDTH \div 2, SCREEN_HEIGHT \div 2),
                   velocity |-> Vec(0, 0),
                   radius   |-> PLAYER_RADIUS * Scale,
                   active   |-> TRUE],
     bullets  |-> Array([i \in Bullets |->
                     [g.bullets[i] EXCEPT !.active = FALSE,
                                          !.radius = BULLET_RADIUS * Scale]]),
     enemies  |-> Array([i \in Enemies |->
                     [position |-> Pt(draws[i][1], draws[i][2]),
                      velocity |-> Vec(0, 0),
                      radius   |-> ENEMY_RADIUS * Scale,
                      active   |-> TRUE]]),
     score    |-> 0,
     gameOver |-> FALSE]

\* Movement with one test per key: two aliases held add up
MovementPerKey(keys) ==
    Vec((IF "D" \in keys THEN Frac ELSE 0) + (IF "RIGHT" \in keys THEN Frac ELSE 0)
          - (IF "A" \in keys THEN Frac ELSE 0) - (IF "LEFT" \in keys THEN Frac ELSE 0),
        (IF "S" \in keys THEN Frac ELSE 0) + (IF "DOWN" \in keys THEN Frac ELSE 0)
          - (IF "W" \in keys THEN Frac ELSE 0) - (IF "UP" \in keys THEN Frac ELSE 0))

\* the movement vector of UpdatePlayer before the diagonal scaling, in 1/Frac
Movement(keys) ==
    Vec((IF "D" \in keys \/ "RIGHT" \in keys THEN Frac ELSE 0)
          - (IF "A" \in keys \/ "LEFT" \in keys THEN Frac ELSE 0),
        (IF "S" \in keys \/ "DOWN" \in keys THEN Frac ELSE 0)
          - (IF "W" \in keys \/ "UP" \in keys THEN Frac ELSE 0))

\* Diagonal with the factor 0.7071
DiagonalFourDigits(m) ==
    IF m.x # 0 /\ m.y # 0
    THEN Vec(TDiv(m.x * 7071, 10000), TDiv(m.y * 7071, 10000))
    ELSE m

\* "Normalize diagonal movement"
Diagonal(m) ==
    IF m.x # 0 /\ m.y # 0
    THEN Vec(TDiv(m.x * DIAG_MILLI, 1000), TDiv(m.y * DIAG_MILLI, 1000))
    ELSE m

\* Clamp without its upper test
ClampLowOnly(p, lo, hi) == IF p < lo THEN lo ELSE p

\* "Keep player on screen", one axis
Clamp(p, lo, hi) ==
    LET q == IF p < lo THEN lo ELSE p
    IN  IF q > hi THEN hi ELSE q

UpdatePlayer(g, keys, dt) ==
    LET v == Velocity(Diagonal(Movement(keys)), PLAYER_SPEED)
        r == g.player.radius
        x == g.player.position.x + Step(v.x, dt)
        y == g.player.position.y + Step(v.y, dt)
    IN  [g EXCEPT !.player.position =
            Vec(Clamp(x, r, SCREEN_WIDTH * Scale - r),
                Clamp(y, r, SCREEN_HEIGHT * Scale - r))]

\* the slots FireBullet's scan finds inactive
FreeSlots(g) == {i \in Bullets : ~g.bullets[i].active}

\* the scan run from the last slot down
LastFree(g) == CHOOSE i \in FreeSlots(g) : \A k \in FreeSlots(g) : i >= k

\* the slot the scan stops at: the first inactive one
FirstFree(g) == CHOOSE i \in FreeSlots(g) : \A k \in FreeSlots(g) : i <= k

\* FireBullet that takes slot 0 when the scan finds no inactive slot
FireBulletRecycle(g, mouse) ==
    LET d == Normalize(mouse.x - g.player.position.x,
                       mouse.y - g.player.position.y)
        slot == IF FreeSlots(g) = {} THEN 0 ELSE FirstFree(g)
    IN  [g EXCEPT !.bullets = Array([k \in Bullets |->
            IF k = slot
            THEN [g.bullets[k] EXCEPT !.position = g.player.position,
                                      !.velocity = Velocity(d, BULLET_SPEED),
                                      !.active = TRUE]
            ELSE g.bullets[k]])]

FireBullet(g, mouse) ==
    LET d == Normalize(mouse.x - g.player.position.x,
                       mouse.y - g.player.position.y)
    IN  IF FreeSlots(g) = {} THEN g
        ELSE [g EXCEPT !.bullets = Array([k \in Bullets |->
                 IF k = FirstFree(g)
                 THEN [g.bullets[k] EXCEPT !.position = g.player.position,
                                           !.velocity = Velocity(d, BULLET_SPEED),
                                           !.active = TRUE]
                 ELSE g.bullets[k]])]

\* OffScreen without the tests against SCREEN_WIDTH and SCREEN_HEIGHT
OffScreenLowOnly(p) == p.x < 0 \/ p.y < 0

\* OffScreen with the edges themselves counted as off screen
OffScreenInclusive(p) ==
    \/ p.x <= 0 \/ p.x >= SCREEN_WIDTH * Scale
    \/ p.y <= 0 \/ p.y >= SCREEN_HEIGHT * Scale

\* "Deactivate if off screen"
OffScreen(p) ==
    \/ p.x < 0 \/ p.x > SCREEN_WIDTH * Scale
    \/ p.y < 0 \/ p.y > SCREEN_HEIGHT * Scale

UpdateBullet(b, dt) ==
    IF b.active
    THEN LET p == Vec(b.position.x + Step(b.velocity.x, dt),
                      b.position.y + Step(b.velocity.y, dt))
         IN  [b EXCEPT !.position = p, !.active = ~OffScreen(p)]
    ELSE b

UpdateBullets(g, dt) ==
    [g EXCEPT !.bullets = Array([i \in Bullets |-> UpdateBullet(g.bullets[i], dt)])]

UpdateEnemy(e, target, dt) ==
    IF e.active
    THEN LET d == Normalize(target.x - e.position.x, target.y - e.position.y)
             v == Velocity(d, ENEMY_SPEED)
         IN  [e EXCEPT !.position = Vec(e.position.x + Step(v.x, dt),
                                        e.position.y + Step(v.y, dt))]
    ELSE e

UpdateEnemies(g, dt) ==
    [g EXCEPT !.enemies =
        Array([i \in Enemies |-> UpdateEnemy(g.enemies[i], g.player.position, dt)])]

\* the values GetRandomValue returns in the runs explored
RandXs == {0, SCREEN_WIDTH}
RandYs == {SCREEN_HEIGHT}

\* what one respawn draws: the edge, then one coordinate along it
RespawnDraws ==
    ({0, 2} \X RandXs) \cup ({1, 3} \X RandYs)

\* EdgePosition with the margin taken inward from each edge
EdgePositionInside(edge, v) ==
    CASE edge = 0 -> Pt(v, RESPAWN_MARGIN)
      [] edge = 1 -> Pt(SCREEN_WIDTH - RESPAWN_MARGIN, v)
      [] edge = 2 -> Pt(v, SCREEN_HEIGHT - RESPAWN_MARGIN)
      [] edge = 3 -> Pt(RESPAWN_MARGIN, v)

\* "Respawn enemy at random edge": the switch on edge
EdgePosition(edge, v) ==
    CASE edge = 0 -> Pt(v, -RESPAWN_MARGIN)
      [] edge = 1 -> Pt(SCREEN_WIDTH + RESPAWN_MARGIN, v)
      [] edge = 2 -> Pt(v, SCREEN_HEIGHT + RESPAWN_MARGIN)
      [] edge = 3 -> Pt(-RESPAWN_MARGIN, v)

\* Kill with "score += 1"
KillScoreOne(g, i, j) ==
    [g EXCEPT !.bullets = Array([k \in Bullets |->
                  IF k = i THEN [g.bullets[k] EXCEPT !.active = FALSE] ELSE g.bullets[k]]),
              !.enemies = Array([k \in Enemies |->
                  IF k = j THEN [g.enemies[k] EXCEPT !.active = FALSE] ELSE g.enemies[k]]),
              !.score = @ + 1]

\* the assignments of a bullet-enemy hit before the respawn
Kill(g, i, j) ==
    [g EXCEPT !.bullets = Array([k \in Bullets |->
                  IF k = i THEN [g.bullets[k] EXCEPT !.active = FALSE] ELSE g.bullets[k]]),
              !.enemies = Array([k \in Enemies |->
                  IF k = j THEN [g.enemies[k] EXCEPT !.active = FALSE] ELSE g.enemies[k]]),
              !.score = @ + KILL_SCORE]

\* Respawn without the switch on edge: the enemy is active again where it was
RespawnInPlace(g, j, draw) ==
    [g EXCEPT !.enemies = Array([k \in Enemies |->
        IF k = j THEN [g.enemies[k] EXCEPT !.active = TRUE] ELSE g.enemies[k]])]

\* Respawn without "game->enemies[j].active = true"
RespawnLeftInactive(g, j, draw) ==
    [g EXCEPT !.enemies = Array([k \in Enemies |->
        IF k = j
        THEN [g.enemies[k] EXCEPT !.position = EdgePosition(draw[1], draw[2])]
        ELSE g.enemies[k]])]

\* the respawn: new position, then active again
Respawn(g, j, draw) ==
    [g EXCEPT !.enemies = Array([k \in Enemies |->
        IF k = j
        THEN [g.enemies[k] EXCEPT !.position = EdgePosition(draw[1], draw[2]),
                                  !.active = TRUE]
        ELSE g.enemies[k]])]

\* the test of the inner loop body for bullet i and enemy j
BulletHits(g, i, j) ==
    /\ g.enemies[j].active
    /\ Closer(g.bullets[i].position, g.enemies[j].position,
              g.bullets[i].radius + g.enemies[j].radius)

\* The inner loop "for j" from enemy j on, for bullet i.  A pass state s is
\* [g, hits]: the game and the <<bullet, enemy>> pairs hit so far.  The result
\* is the set of pass states the loop can end in, one per sequence of draws.
RECURSIVE EnemyLoop(_, _, _)
EnemyLoop(s, i, j) ==
    IF j = MAX_ENEMIES THEN {s}
    ELSE IF BulletHits(s.g, i, j)
    THEN UNION {EnemyLoop([g    |-> Respawn(Kill(s.g, i, j), j, d),
                           hits |-> Append(s.hits, <<i, j>>)], i, j + 1)
                : d \in RespawnDraws}
    ELSE EnemyLoop(s, i, j + 1)

\* The outer loop "for i" from bullet i on: the bullet's active flag is read
\* once, before its inner loop.
RECURSIVE BulletLoop(_, _)
BulletLoop(s, i) ==
    IF i = MAX_BULLETS THEN {s}
    ELSE IF s.g.bullets[i].active
    THEN UNION {BulletLoop(t, i + 1) : t \in EnemyLoop(s, i, 0)}
    ELSE BulletLoop(s, i + 1)

\* the test of the player-enemy loop for enemy i
PlayerHit(g, i) ==
    /\ g.enemies[i].active
    /\ Closer(g.player.position, g.enemies[i].position,
              g.player.radius + g.enemies[i].radius)

\* PlayerPass with "gameOver = (distance < ...)": the last enemy decides
PlayerPassLastOnly(g) ==
    [g EXCEPT !.gameOver = PlayerHit(g, MAX_ENEMIES - 1)]

\* "Player-Enemy collisions"
PlayerPass(g) ==
    IF \E i \in Enemies : PlayerHit(g, i) THEN [g EXCEPT !.gameOver = TRUE] ELSE g

\* CheckCollisions with the player-enemy loop before the bullet-enemy loops
CheckCollisionsPlayerFirst(g) ==
    BulletLoop([g |-> PlayerPass(g), hits |-> <<>>], 0)

\* CheckCollisions: the pass states it can end in
CheckCollisions(g) ==
    {[s EXCEPT !.g = PlayerPass(s.g)] : s \in BulletLoop([g |-> g, hits |-> <<>>], 0)}

(***************************************************************************)
(* main: the frame loop.                                                   *)
(***************************************************************************)

VARIABLES
    game,      \* the GameState of main
    prev,      \* the GameState at the start of the last frame
    atCheck,   \* the GameState the last frame passed to CheckCollisions
    running,   \* the frame loop has not been left
    input,     \* what the last frame read: GetFrameTime, held keys, mouse, R
    hits,      \* the <<bullet, enemy>> hits of the last frame's CheckCollisions
    frames     \* frames run so far

vars == <<game, prev, atCheck, running, input, hits, frames>>

\* frames explored per run
MaxFrames == 3
MaxVolley == 21
MaxKeyFrames == 2
MaxStackFrames == 3

\* The enemy positions InitGame draws, in the runs explored.  Enemies 2..9
\* start far from the player; 0 and 1 start close to it.
FarSpots ==
    <<<<0, 0>>, <<SCREEN_WIDTH, 0>>, <<0, SCREEN_HEIGHT>>,
      <<SCREEN_WIDTH, SCREEN_HEIGHT>>, <<200, 0>>, <<600, 0>>,
      <<200, SCREEN_HEIGHT>>, <<600, SCREEN_HEIGHT>>>>

Layout(p0, p1) ==
    [i \in Enemies |-> IF i = 0 THEN p0 ELSE IF i = 1 THEN p1 ELSE FarSpots[i - 1]]

Layouts == {Layout(<<460, 300>>, <<460, 300>>), Layout(<<400, 300>>, <<445, 300>>)}

\* The local "GameState game" of main before InitGame: no field is assigned.
\* A field holding Indeterminate has no value the program can use: it has no
\* component to read, so any arithmetic or comparison with a number on it
\* stops TLC with an error.
Indeterminate == <<>>

Unassigned ==
    LET o == [position |-> Indeterminate, velocity |-> Indeterminate,
              radius |-> Indeterminate, active |-> Indeterminate]
    IN  [player |-> o, bullets |-> [i \in Bullets |-> o],
         enemies |-> [i \in Enemies |-> o],
         score |-> Indeterminate, gameOver |-> Indeterminate]

\* pointer positions
MouseRight == Pt(460, 300)
MouseCentre == Pt(SCREEN_WIDTH \div 2, SCREEN_HEIGHT \div 2)

In(dt, keys, fire, mouse, restart) ==
    [dt |-> dt, keys |-> keys, fire |-> fire, mouse |-> mouse, restart |-> restart]

\* frame times in milliseconds
ShortFrame == 100
LongFrame == 1000
VolleyFrame == 10

\* the inputs of a frame, in the runs explored
Inputs ==
    {In(ShortFrame, {}, FALSE, MouseCentre, FALSE)}
    \cup {In(LongFrame, k, FALSE, MouseCentre, FALSE) : k \in {{"D"}, {"W", "A"}}}
    \cup {In(ShortFrame, {}, TRUE, m, FALSE) : m \in {MouseRight, MouseCentre}}
    \cup {In(LongFrame, {}, TRUE, MouseRight, FALSE)}
    \cup {In(ShortFrame, {"D"}, TRUE, MouseRight, TRUE)}

\* rapid fire onto the player's own position at short frame times
VolleyInputs == {In(VolleyFrame, {}, f, MouseCentre, FALSE) : f \in BOOLEAN}

\* the keys UpdatePlayer asks IsKeyDown about
Keys == {"W", "S", "A", "D", "UP", "DOWN", "LEFT", "RIGHT"}

\* a frame with any set of the movement keys held
KeyInputs == {In(ShortFrame, k, FALSE, MouseCentre, FALSE) : k \in SUBSET Keys}

NoInput == In(0, {}, FALSE, MouseCentre, FALSE)

\* a game drawn with enemy 0 to the left of the player, 120 away
StackLayouts == {Layout(<<280, 300>>, <<SCREEN_WIDTH, 300>>)}

Init ==
    /\ \E draws \in Layouts : game = InitGame(Unassigned, draws)
    /\ prev = game
    /\ atCheck = game
    /\ running = TRUE
    /\ input = NoInput
    /\ hits = <<>>
    /\ frames = 0

\* Advance with the fire press handled before UpdatePlayer
AdvanceFireFirst(g, in) ==
    LET g1 == IF in.fire THEN FireBullet(g, in.mouse) ELSE g
        g2 == UpdatePlayer(g1, in.keys, in.dt)
        g3 == UpdateBullets(g2, in.dt)
    IN  UpdateEnemies(g3, in.dt)

\* the updates of a frame with gameOver false, up to CheckCollisions
Advance(g, in) ==
    LET g1 == UpdatePlayer(g, in.keys, in.dt)
        g2 == IF in.fire THEN FireBullet(g1, in.mouse) ELSE g1
        g3 == UpdateBullets(g2, in.dt)
    IN  UpdateEnemies(g3, in.dt)

\* the updates of a frame with gameOver false: the results [g, hits, at],
\* at being the game as CheckCollisions received it
Updates(g, in) ==
    LET a == Advance(g, in)
    IN  {[g |-> s.g, hits |-> s.hits, at |-> a] : s \in CheckCollisions(a)}

\* LoopBody with the updates outside the test of gameOver
LoopBodyUngated(g, in) ==
    IF g.gameOver /\ in.restart
    THEN {[g |-> InitGame(g, draws), hits |-> <<>>, at |-> g] : draws \in Layouts}
    ELSE Updates(g, in)

\* LoopBody with the test of KEY_R outside the test of gameOver
LoopBodyRestartAnytime(g, in) ==
    IF in.restart
    THEN {[g |-> InitGame(g, draws), hits |-> <<>>, at |-> g] : draws \in Layouts}
    ELSE IF ~g.gameOver THEN Updates(g, in)
    ELSE {[g |-> g, hits |-> <<>>, at |-> g]}

\* "if (!game.gameOver) ... else ...": the results [g, hits, at] the body of
\* the loop can end in, from game g with input in; at is g itself in a frame
\* that does not call CheckCollisions
LoopBody(g, in) ==
    IF ~g.gameOver THEN Updates(g, in)
    ELSE IF in.restart
    THEN {[g |-> InitGame(g, draws), hits |-> <<>>, at |-> g] : draws \in Layouts}
    ELSE {[g |-> g, hits |-> <<>>, at |-> g]}

\* one iteration of the while loop of main that reaches DrawGame
Frame(in, cap) ==
    /\ running
    /\ frames < cap
    /\ \E s \in LoopBody(game, in) : game' = s.g /\ hits' = s.hits /\ atCheck' = s.at
    /\ prev' = game
    /\ input' = in
    /\ frames' = frames + 1
    /\ UNCHANGED running

\* WindowShouldClose() is true at the loop head, or KEY_ESCAPE ends the
\* frame just run: the loop is left with the game as it is
Quit ==
    /\ running
    /\ running' = FALSE
    /\ UNCHANGED <<game, prev, atCheck, input, hits, frames>>

Next ==
    \/ \E in \in Inputs : Frame(in, MaxFrames)
    \/ Quit

Spec == Init /\ [][Next]_vars

\* runs that open with MAX_BULLETS frames of rapid fire
NextVolley ==
    \/ \E in \in (IF frames < MAX_BULLETS THEN VolleyInputs ELSE Inputs) :
           Frame(in, MaxVolley)
    \/ Quit

SpecVolley == Init /\ [][NextVolley]_vars

\* runs that open with a frame holding any set of the movement keys
NextKeys ==
    \/ \E in \in (IF frames = 0 THEN KeyInputs ELSE Inputs) :
           Frame(in, MaxKeyFrames)
    \/ Quit

SpecKeys == Init /\ [][NextKeys]_vars

\* runs of a game drawn from StackLayouts
InitStack ==
    /\ \E draws \in StackLayouts : game = InitGame(Unassigned, draws)
    /\ prev = game
    /\ atCheck = game
    /\ running = TRUE
    /\ input = NoInput
    /\ hits = <<>>
    /\ frames = 0

NextStack ==
    \/ \E in \in Inputs : Frame(in, MaxStackFrames)
    \/ Quit

SpecStack == InitStack /\ [][NextStack]_vars

(***************************************************************************)
(* Properties.  The state after a frame is described against prev, the     *)
(* game at the start of that frame, and input, what the frame read.        *)
(***************************************************************************)

\* the last frame ran the updates (gameOver was false at its start)
PlayFrame == frames > 0 /\ ~prev.gameOver
\* the last frame started with gameOver true and R was not pressed
IdleFrame == frames > 0 /\ prev.gameOver /\ ~input.restart
\* the last frame started with gameOver true and R was pressed
RestartFrame == frames > 0 /\ prev.gameOver /\ input.restart

\* the bullets deactivated by a hit in the last frame's CheckCollisions
Spent == {i \in Bullets : atCheck.bullets[i].active /\ ~game.bullets[i].active}

\* C1: in one CheckCollisions pass a bullet is hit against at most one enemy:
\* no bullet appears in two hits of the pass, and the score gained in the pass
\* is at most 10 times the number of bullets the pass deactivated.
C1_BulletConsumesOneEnemy ==
    PlayFrame =>
        /\ \A a, b \in 1..Len(hits) : a # b => hits[a][1] # hits[b][1]
        /\ game.score - prev.score <= 10 * Cardinality(Spent)

\* C2: after InitGame and after every frame the player's centre is within
\* [20, 780] x [20, 580].
C2_PlayerInField ==
    /\ 20 * Scale <= game.player.position.x
    /\ game.player.position.x <= (800 - 20) * Scale
    /\ 20 * Scale <= game.player.position.y
    /\ game.player.position.y <= (600 - 20) * Scale

\* a frame moved the player right from x = 600 for a second: the clamp cut
\* the move at 780
C2_Witness ==
    /\ PlayFrame
    /\ input.keys = {"D"} /\ input.dt = LongFrame
    /\ prev.player.position.x = 600 * Scale
    /\ game.player.position.x = 780 * Scale

\* C3: after InitGame and after every frame all 10 enemy slots are active.
C3_AllEnemiesActive ==
    /\ DOMAIN game.enemies = 0..9
    /\ \A j \in 0..9 : game.enemies[j].active

\* a frame in which a bullet hit an enemy
C3_Witness == PlayFrame /\ hits # <<>> /\ \A j \in 0..9 : game.enemies[j].active

\* C4: a frame that starts with gameOver true and does not read R pressed
\* leaves player, bullets, enemies and score as they were, and gameOver true.
C4_GameOverFreezes ==
    IdleFrame => game = prev /\ game.gameOver

\* such a frame with a movement key held
C4_Witness == IdleFrame /\ input.keys # {} /\ game.gameOver

\* the state InitGame leaves, as the claim lists it
Fresh(g) ==
    /\ g.score = 0
    /\ g.gameOver = FALSE
    /\ g.player.position = Vec(400 * Scale, 300 * Scale)
    /\ g.player.velocity = Vec(0, 0)
    /\ \A i \in 0..19 : ~g.bullets[i].active
    /\ \A j \in 0..9 :
        /\ g.enemies[j].active
        /\ 0 <= g.enemies[j].position.x /\ g.enemies[j].position.x <= 800 * Scale
        /\ 0 <= g.enemies[j].position.y /\ g.enemies[j].position.y <= 600 * Scale
        /\ g.enemies[j].velocity = Vec(0, 0)

\* C5: a frame that starts with gameOver true and reads R pressed ends in a
\* fresh initial state.
C5_RestartIsFresh == RestartFrame => Fresh(game)

\* a restart from a game that had scored
C5_Witness == RestartFrame /\ prev.score > 0 /\ Fresh(game)

\* the game the last frame handed to FireBullet (after UpdatePlayer)
AtFire == UpdatePlayer(prev, input.keys, input.dt)

\* C6: FireBullet called with all 20 slots active returns the game it was
\* given, and the rest of the frame works on that game: CheckCollisions
\* receives what it would have received without the call.
C6_FullPoolFireDropped ==
    LET a == AtFire
    IN  (PlayFrame /\ input.fire /\ \A i \in 0..19 : a.bullets[i].active) =>
            /\ FireBullet(a, input.mouse) = a
            /\ atCheck = UpdateEnemies(UpdateBullets(a, input.dt), input.dt)

\* a frame that read a fire press with all 20 slots active at its start
C6_Witness ==
    /\ PlayFrame /\ input.fire /\ input.mouse # prev.player.position
    /\ \A i \in 0..19 : prev.bullets[i].active
    /\ \A i \in 0..19 : game.bullets[i] = prev.bullets[i]

\* C7: the score is never negative, always a multiple of 10, and within a run
\* a frame changes it only in CheckCollisions: by 10 for each hit of the pass.
C7_ScoreSteps ==
    /\ game.score >= 0
    /\ game.score % 10 = 0
    /\ PlayFrame =>
        /\ atCheck.score = prev.score
        /\ game.score = prev.score + 10 * Len(hits)
        /\ game.score >= prev.score
    /\ IdleFrame => game.score = prev.score

\* a frame with a hit in a game that had already scored
C7_Witness == PlayFrame /\ prev.score > 0 /\ hits # <<>> /\ game.score > prev.score

\* the squared length of v lies within one field unit per second of speed
SpeedIs(v, speed) ==
    /\ v.x * v.x + v.y * v.y >= ((speed - 1) * Scale) * ((speed - 1) * Scale)
    /\ v.x * v.x + v.y * v.y <= ((speed + 1) * Scale) * ((speed + 1) * Scale)

\* v does not point away from (dx, dy) on either axis
Along(v, dx, dy) ==
    /\ (v.x > 0 => dx > 0) /\ (v.x < 0 => dx < 0)
    /\ (v.y > 0 => dy > 0) /\ (v.y < 0 => dy < 0)

\* C8: FireBullet called with an inactive slot activates the lowest-index
\* inactive slot, at the player's position, with velocity 400 along the aim
\* direction, and leaves every other slot as it was; the frame then advances
\* that bullet from the player's position.
C8_FireTakesFirstFreeSlot ==
    LET a == AtFire
        f == FireBullet(a, input.mouse)
        free == {i \in 0..19 : ~a.bullets[i].active}
        slot == CHOOSE i \in free : \A k \in free : i <= k
        dx == input.mouse.x - a.player.position.x
        dy == input.mouse.y - a.player.position.y
        v == f.bullets[slot].velocity
    IN  (PlayFrame /\ input.fire /\ free # {}) =>
            /\ f.bullets[slot].active
            /\ f.bullets[slot].position = a.player.position
            /\ v = Velocity(Normalize(dx, dy), 400)
            /\ Along(v, dx, dy)
            /\ (dx # 0 \/ dy # 0) => SpeedIs(v, 400)
            /\ \A k \in 0..19 : k # slot => f.bullets[k] = a.bullets[k]
            /\ f.player = a.player /\ f.enemies = a.enemies
            /\ f.score = a.score /\ f.gameOver = a.gameOver
            /\ game.bullets[slot].velocity = v
            /\ game.bullets[slot].position =
                   Vec(a.player.position.x + Step(v.x, input.dt),
                       a.player.position.y + Step(v.y, input.dt))

\* a fire press with slot 0 inactive and slot 1 active: slot 0 is taken again
C8_Witness ==
    /\ PlayFrame /\ input.fire
    /\ ~prev.bullets[0].active /\ prev.bullets[1].active
    /\ game.bullets[0].active /\ game.bullets[1].active

\* C9: a bullet fired with the aim point on the player has velocity (0,0);
\* a frame leaves an active bullet of velocity (0,0) where it was, active
\* after UpdateBullets, and inactive at the end only if the pass hit it.
C9_ZeroVelocityBulletStays ==
    LET a == AtFire
        f == FireBullet(a, input.mouse)
    IN  PlayFrame =>
            /\ (input.fire /\ input.mouse = a.player.position) =>
                   \A i \in 0..19 : (~a.bullets[i].active /\ f.bullets[i].active) =>
                       /\ f.bullets[i].velocity = Vec(0, 0)
                       /\ game.bullets[i].velocity = Vec(0, 0)
                       /\ game.bullets[i].position = a.player.position
            /\ \A i \in 0..19 :
                   (prev.bullets[i].active /\ prev.bullets[i].velocity = Vec(0, 0)) =>
                       /\ game.bullets[i].position = prev.bullets[i].position
                       /\ game.bullets[i].velocity = Vec(0, 0)
                       /\ atCheck.bullets[i].active
                       /\ game.bullets[i].active \/ \E k \in 1..Len(hits) : hits[k][1] = i

\* a bullet fired onto the player's position in an earlier frame is still
\* active and in place after a later frame
C9_Witness ==
    /\ PlayFrame
    /\ \E i \in 0..19 :
        /\ prev.bullets[i].active /\ prev.bullets[i].velocity = Vec(0, 0)
        /\ game.bullets[i].active
        /\ game.bullets[i].position = prev.bullets[i].position

\* centres a and b are less than 20 field units apart
Within20(a, b) ==
    LET dx == Abs(a.x - b.x)
        dy == Abs(a.y - b.y)
    IN  /\ dx < 20 * Scale /\ dy < 20 * Scale
        /\ dx * dx + dy * dy < (20 * Scale) * (20 * Scale)

\* the four edge bands of a respawn
InBand(p) ==
    \/ 0 <= p.x /\ p.x <= 800 * Scale /\ p.y = -50 * Scale
    \/ p.x = 850 * Scale /\ 0 <= p.y /\ p.y <= 600 * Scale
    \/ 0 <= p.x /\ p.x <= 800 * Scale /\ p.y = 650 * Scale
    \/ p.x = -50 * Scale /\ 0 <= p.y /\ p.y <= 600 * Scale

\* the pairs of an active bullet and an active enemy less than 20 apart when
\* the last frame entered CheckCollisions
Overlapping ==
    LET c == atCheck
    IN  {q \in {i \in 0..19 : c.bullets[i].active} \X (0..9) :
            /\ c.enemies[q[2]].active
            /\ Within20(c.bullets[q[1]].position, c.enemies[q[2]].position)}

\* C10: every hit of a pass leaves its bullet inactive and its enemy active in
\* one of the four edge bands, and adds exactly 10 to the score; a pair that
\* enters the pass less than 20 apart, with no earlier pair of the pass on the
\* same bullet or the same enemy, is hit; with no such pair nothing is hit.
C10_HitRespawnsEnemy ==
    LET over == Overlapping
    IN  PlayFrame =>
            /\ \A k \in 1..Len(hits) :
                   /\ ~game.bullets[hits[k][1]].active
                   /\ game.enemies[hits[k][2]].active
                   /\ InBand(game.enemies[hits[k][2]].position)
            /\ game.score = prev.score + 10 * Len(hits)
            /\ \A q \in over :
                   (/\ \A i \in 0..19 : i < q[1] => <<i, q[2]>> \notin over
                    /\ \A j \in 0..9 : j < q[2] => <<q[1], j>> \notin over) =>
                       /\ \E k \in 1..Len(hits) : hits[k] = q
                       /\ ~game.bullets[q[1]].active
                       /\ game.enemies[q[2]].active
                       /\ InBand(game.enemies[q[2]].position)
                       /\ game.score >= prev.score + 10
            /\ over = {} => hits = <<>> /\ game.score = prev.score

\* a pass entered with a bullet and an enemy less than 20 apart
C10_Witness ==
    /\ PlayFrame /\ Overlapping # {} /\ Len(hits) = 1
    /\ InBand(game.enemies[hits[1][2]].position)
    /\ game.score = prev.score + 10

\* the enemies at the player's position at the start of the last frame
OnPlayer == {j \in 0..9 : prev.enemies[j].position = prev.player.position}

\* C11: from a freshly initialised game with an enemy at the player's position
\* (400,300), UpdateEnemies leaves that enemy where it is and the
\* CheckCollisions that follows sets gameOver; a frame with no key held and no
\* fire press is that scenario, and ends with the enemy in place and gameOver
\* true.
C11_EnemyOnPlayerEndsGame ==
    LET e == UpdateEnemies(prev, input.dt)
    IN  (PlayFrame /\ Fresh(prev)) =>
            \A j \in OnPlayer :
                /\ prev.enemies[j].position = Vec(400 * Scale, 300 * Scale)
                /\ e.enemies[j].position = prev.enemies[j].position
                /\ \A s \in CheckCollisions(e) : s.g.gameOver
                /\ (input.keys = {} /\ ~input.fire) =>
                       /\ atCheck.enemies[j].position = prev.enemies[j].position
                       /\ game.enemies[j].position = prev.enemies[j].position
                       /\ game.gameOver

\* the first frame of a game drawn with enemy 0 on the player, with no key
\* held and no fire press
C11_Witness ==
    /\ PlayFrame /\ Fresh(prev) /\ 0 \in OnPlayer
    /\ input.keys = {} /\ ~input.fire /\ input.dt > 0
    /\ game.enemies[0].position = prev.player.position
    /\ game.gameOver

\* the squared distance of centres a and b, in squared position steps, when
\* both axis distances are at most 35 field units
Dist2(a, b) == (a.x - b.x) * (a.x - b.x) + (a.y - b.y) * (a.y - b.y)
Near35(a, b) == Abs(a.x - b.x) <= 35 * Scale /\ Abs(a.y - b.y) <= 35 * Scale

\* the active enemies of g strictly less than 35 from the player's centre
Under35(g) ==
    {j \in 0..9 : /\ g.enemies[j].active
                  /\ Near35(g.player.position, g.enemies[j].position)
                  /\ Dist2(g.player.position, g.enemies[j].position)
                         < (35 * Scale) * (35 * Scale)}

\* the active enemies of g exactly 35 from the player's centre
At35(g) ==
    {j \in 0..9 : /\ g.enemies[j].active
                  /\ Near35(g.player.position, g.enemies[j].position)
                  /\ Dist2(g.player.position, g.enemies[j].position)
                         = (35 * Scale) * (35 * Scale)}

\* C12: a frame that starts with gameOver false ends with gameOver true
\* exactly when, after the bullet-enemy pass (whose enemies and player are
\* those of the end of the frame), some active enemy is strictly less than 35
\* from the player; an enemy at exactly 35 does not end the game.
C12_GameOverIffUnder35 ==
    PlayFrame =>
        /\ game.gameOver <=> Under35(game) # {}
        /\ (At35(game) # {} /\ Under35(game) = {}) => ~game.gameOver

\* a frame that ends with an enemy exactly 35 from the player and no enemy
\* nearer: the game goes on
C12_Witness ==
    PlayFrame /\ At35(game) # {} /\ Under35(game) = {} /\ ~game.gameOver

\* the bullets and the enemies of the hits of the last frame's pass
HitBullets == {hits[k][1] : k \in 1..Len(hits)}
HitEnemies == {hits[k][2] : k \in 1..Len(hits)}

\* C13: InitGame is re-run only in a frame that starts with gameOver true and
\* reads R pressed.  A frame that starts with gameOver false and reads R
\* pressed runs the updates and nothing else, also when it ends with gameOver
\* true: the score is the old score plus the hits, the player is where
\* UpdatePlayer put it, and bullets and enemies are those of the updates but
\* for the hits.  A frame that starts with gameOver true and does not read R
\* leaves the game as it was.
C13_RestartOnlyWhenGameOver ==
    /\ (PlayFrame /\ input.restart) =>
           /\ atCheck = Advance(prev, input)
           /\ game.score = prev.score + 10 * Len(hits)
           /\ game.player = AtFire.player
           /\ \A i \in 0..19 :
                  /\ game.bullets[i].active =
                         (atCheck.bullets[i].active /\ i \notin HitBullets)
                  /\ atCheck.bullets[i].active =>
                         game.bullets[i].position = atCheck.bullets[i].position
           /\ \A j \in 0..9 :
                  j \notin HitEnemies => game.enemies[j] = atCheck.enemies[j]
    /\ IdleFrame => game = prev

\* R pressed in the frame in which gameOver becomes true, in a game that had
\* scored and holds an active bullet: score and bullet are kept
C13_Witness ==
    /\ PlayFrame /\ input.restart
    /\ prev.score > 0 /\ game.score = prev.score
    /\ game.gameOver
    /\ \E i \in 0..19 : game.bullets[i].active

\* the game the last frame handed to UpdateBullets
AtBullets == IF input.fire THEN FireBullet(AtFire, input.mouse) ELSE AtFire

\* the slot the last frame's fire press activated: the lowest one inactive
\* at the start of the frame, if there was one
Fired ==
    LET free == {i \in 0..19 : ~prev.bullets[i].active}
    IN  IF input.fire THEN {i \in free : \A k \in free : i <= k} ELSE {}

\* p lies in the closed field rectangle
InField(p) ==
    /\ 0 <= p.x /\ p.x <= 800 * Scale
    /\ 0 <= p.y /\ p.y <= 600 * Scale

\* C14: UpdateBullets moves every active bullet by velocity x dt and keeps it
\* active exactly when the new position is in the closed field rectangle (a
\* centre on an edge stays active, one strictly outside is deactivated); an
\* inactive bullet is left as it was.
C14_BulletCulledOutsideField ==
    LET b == AtBullets
    IN  PlayFrame =>
            \A i \in 0..19 :
                IF b.bullets[i].active
                THEN LET p == Vec(b.bullets[i].position.x
                                     + Step(b.bullets[i].velocity.x, input.dt),
                                  b.bullets[i].position.y
                                     + Step(b.bullets[i].velocity.y, input.dt))
                     IN  /\ atCheck.bullets[i].position = p
                         /\ atCheck.bullets[i].velocity = b.bullets[i].velocity
                         /\ atCheck.bullets[i].active <=> InField(p)
                ELSE atCheck.bullets[i] = b.bullets[i]

\* UpdateBullets moved a bullet onto the right edge, x = 800, and left it
\* active
C14_Witness ==
    /\ PlayFrame
    /\ prev.player.position.x < 800 * Scale
    /\ \E i \in Fired :
        /\ atCheck.bullets[i].position.x = 800 * Scale
        /\ atCheck.bullets[i].active

\* C15: a frame with gameOver false runs player move, fire, bullet advance,
\* enemy move, collision check, in this order: the bullet a fire press
\* activates starts at the player's position after the move and the clamp,
\* aimed from there, and is advanced by velocity x dt in the same frame; every
\* enemy steps toward the player's position after the move; CheckCollisions
\* works on the positions after these updates: every hit is of a bullet and an
\* enemy less than 20 apart there, and gameOver is set only by, and by every,
\* enemy less than 35 from the player there that the pass did not hit.
C15_UpdateOrder ==
    LET p == UpdatePlayer(prev, input.keys, input.dt).player
    IN  PlayFrame =>
            /\ atCheck.player = p /\ game.player = p
            /\ \A i \in Fired :
                   LET v == Velocity(Normalize(input.mouse.x - p.position.x,
                                               input.mouse.y - p.position.y), 400)
                   IN  /\ atCheck.bullets[i].velocity = v
                       /\ atCheck.bullets[i].position =
                              Vec(p.position.x + Step(v.x, input.dt),
                                  p.position.y + Step(v.y, input.dt))
            /\ \A i \in 0..19 : prev.bullets[i].active =>
                   atCheck.bullets[i].position =
                       Vec(prev.bullets[i].position.x
                              + Step(prev.bullets[i].velocity.x, input.dt),
                           prev.bullets[i].position.y
                              + Step(prev.bullets[i].velocity.y, input.dt))
            /\ \A j \in 0..9 :
                   atCheck.enemies[j] = UpdateEnemy(prev.enemies[j], p.position, input.dt)
            /\ \A k \in 1..Len(hits) :
                   /\ atCheck.bullets[hits[k][1]].active
                   /\ Within20(atCheck.bullets[hits[k][1]].position,
                               atCheck.enemies[hits[k][2]].position)
            /\ game.gameOver => Under35(atCheck) # {}
            /\ Under35(atCheck) \ HitEnemies # {} => game.gameOver

\* a frame that moved the player and fired: the bullet left from the
\* player's new position, and an enemy stepped toward it
C15_Witness ==
    /\ PlayFrame /\ input.fire
    /\ game.player.position # prev.player.position
    /\ \E i \in Fired :
        /\ atCheck.bullets[i].active
        /\ atCheck.bullets[i].position.x =
               game.player.position.x + Step(atCheck.bullets[i].velocity.x, input.dt)
        /\ atCheck.bullets[i].position.x # game.player.position.x
    /\ \E j \in 0..9 : atCheck.enemies[j].position # prev.enemies[j].position

\* +1, -1 or 0: what the held keys ask for on an axis, either alias of a
\* direction counting as the direction
AxisOf(pos, neg) == (IF pos THEN 1 ELSE 0) - (IF neg THEN 1 ELSE 0)
AxisX(keys) == AxisOf("D" \in keys \/ "RIGHT" \in keys, "A" \in keys \/ "LEFT" \in keys)
AxisY(keys) == AxisOf("S" \in keys \/ "DOWN" \in keys, "W" \in keys \/ "UP" \in keys)

\* the position UpdatePlayer's clamp leaves for the unclamped coordinate t
Kept(t, hi) == IF t < 20 * Scale THEN 20 * Scale ELSE IF t > hi THEN hi ELSE t

\* C16: for every set of held keys the direction of UpdatePlayer is, on each
\* axis, (positive direction held) - (negative direction held), a direction
\* being held when either of its two keys is; the diagonal scale changes the
\* direction only when both axes are non-zero.  In the frame: with one axis
\* zero the player moves 200 x dt along the other axis' sign, and with both
\* non-zero its unclamped move is shorter than 200 x dt on both axes, by the
\* same amount, along the signs.
C16_KeysToDirection ==
    LET ex == AxisX(input.keys)
        ey == AxisY(input.keys)
        m == Movement(input.keys)
        d == Diagonal(m)
        full == (200 * Scale * input.dt) \div 1000
        px == prev.player.position.x
        py == prev.player.position.y
    IN  PlayFrame =>
            /\ m = Vec(ex * Frac, ey * Frac)
            /\ (ex = 0 \/ ey = 0) =>
                   /\ d = m
                   /\ game.player.position.x = Kept(px + ex * full, 780 * Scale)
                   /\ game.player.position.y = Kept(py + ey * full, 580 * Scale)
            /\ (ex # 0 /\ ey # 0) =>
                   /\ d # m
                   /\ \E k \in 1..(full - 1) :
                          /\ game.player.position.x = Kept(px + ex * k, 780 * Scale)
                          /\ game.player.position.y = Kept(py + ey * k, 580 * Scale)

\* a frame with both keys of one direction held together with a pair of
\* opposite keys: it moved the player as the one direction alone does
C16_Witness ==
    /\ PlayFrame
    /\ {"D", "RIGHT", "W", "DOWN"} \subseteq input.keys
    /\ "A" \notin input.keys /\ "LEFT" \notin input.keys
    /\ game.player.position.x = prev.player.position.x + 20 * Scale
    /\ game.player.position.y = prev.player.position.y

\* 0.70710678 x 200 x dt in position steps, dt in milliseconds: 14.1421356 x dt
ClaimedDiagonalStep(dt) == (14142 * dt + (1356 * dt) \div 10000) \div 1000

\* 0.707 x 200 x dt in position steps, dt in milliseconds: 14.14 x dt
DiagonalStep(dt) == (1414 * dt) \div 100

\* the last frame moved the player by k position steps along the signs of
\* both axes of the held keys, before the clamp
MovedDiagonally(k) ==
    /\ game.player.position.x =
           Kept(prev.player.position.x + AxisX(input.keys) * k, 780 * Scale)
    /\ game.player.position.y =
           Kept(prev.player.position.y + AxisY(input.keys) * k, 580 * Scale)

\* the last frame ran UpdatePlayer with both axes of the direction non-zero
DiagonalFrame == PlayFrame /\ AxisX(input.keys) # 0 /\ AxisY(input.keys) # 0

\* C17 as claimed: a diagonal move displaces the player by 0.70710678 x 200 x
\* dt on each axis before the clamp (to within one position step, 0.01).
C17_DiagonalScaleAsClaimed ==
    DiagonalFrame =>
        \E e \in -1..1 : MovedDiagonally(ClaimedDiagonalStep(input.dt) + e)

\* C17: when the direction is non-zero on both axes UpdatePlayer scales both
\* components by 0.707, so the per-axis displacement of a diagonal move before
\* the clamp is 0.707 x 200 x dt.
C17_DiagonalScale ==
    DiagonalFrame =>
        /\ Diagonal(Movement(input.keys)) =
               Vec(AxisX(input.keys) * 7070, AxisY(input.keys) * 7070)
        /\ MovedDiagonally(DiagonalStep(input.dt))

\* a diagonal move of one second: 141.40 on each axis, not 141.42
C17_Witness ==
    /\ DiagonalFrame /\ input.dt = LongFrame
    /\ prev.player.position = Vec(400 * Scale, 300 * Scale)
    /\ game.player.position = Vec(40000 - 14140, 30000 - 14140)

\* C18: at the end of every frame every active bullet is in the closed field
\* rectangle 0 <= x <= 800, 0 <= y <= 600.
C18_ActiveBulletsInField ==
    \A i \in 0..19 : game.bullets[i].active => InField(game.bullets[i].position)

\* a frame ends with a bullet active on the right edge; the frame that follows
\* carries it past the edge and ends with it inactive
C18_Witness ==
    /\ PlayFrame
    /\ \E i \in 0..19 :
        /\ prev.bullets[i].active /\ prev.bullets[i].position.x = 800 * Scale
        /\ prev.bullets[i].velocity.x > 0
        /\ ~game.bullets[i].active
        /\ game.bullets[i].position.x > 800 * Scale

\* C20: the bullet-enemy pass runs before the player-enemy pass: when every
\* enemy that is less than 35 from the player on entry to CheckCollisions is
\* hit by a bullet in the pass, the frame ends with gameOver false.
C20_HitEnemyDoesNotEndGame ==
    (PlayFrame /\ Under35(atCheck) \subseteq HitEnemies) => ~game.gameOver

\* an enemy on the player on entry to CheckCollisions, hit by a bullet in the
\* pass: the game goes on
C20_Witness ==
    /\ PlayFrame
    /\ Under35(atCheck) # {} /\ Under35(atCheck) \subseteq HitEnemies
    /\ ~game.gameOver

\* the pairs of an active bullet and an enemy less than 20 apart on entry to
\* the last frame's CheckCollisions, the enemy being hit in the pass by
\* another bullet
SecondBullets ==
    {q \in Overlapping : q[2] \in HitEnemies /\ <<q[1], q[2]>> \notin
                             {hits[k] : k \in 1..Len(hits)}}

\* C19: an enemy respawned by a hit is not hit again in the same pass and does
\* not set gameOver in it: no enemy appears in two hits of a pass, a hit enemy
\* ends the frame 50 outside the field and 35 or more from the player, and a
\* frame that ends with gameOver true has an enemy that was not hit less than
\* 35 from the player.
C19_RespawnedEnemyOutOfReach ==
    PlayFrame =>
        /\ \A a, b \in 1..Len(hits) : a # b => hits[a][2] # hits[b][2]
        /\ \A j \in HitEnemies :
               /\ InBand(game.enemies[j].position)
               /\ ~InField(game.enemies[j].position)
               /\ j \notin Under35(game)
               /\ \A i \in 0..19 : atCheck.bullets[i].active =>
                      ~Within20(atCheck.bullets[i].position, game.enemies[j].position)
        /\ game.gameOver => Under35(game) \ HitEnemies # {}

\* a pass entered with two bullets on one enemy: the first hits it, the
\* second stays active
C19_Witness ==
    /\ PlayFrame /\ Len(hits) = 1
    /\ \E q \in SecondBullets : game.bullets[q[1]].active

====
